---- MODULE Spec2Model ----
(***************************************************************************)
(* Model of lib/python/qmk/cli/cformat.py: the `qmk cformat` subcommand.   *)
(*                                                                         *)
(* A path is a sequence of one-character strings, so that prefix,          *)
(* substring and "text after the last dot" are computed on the characters  *)
(* as the Python string methods compute them.                              *)
(*                                                                         *)
(* Spec      one invocation of cformat(cli): selection of the candidate    *)
(*           files, the sanity check, then find_diffs or cformat_run.      *)
(* SpecWhich calls of find_clang_format() against a changing set of        *)
(*           installed executables.                                        *)
(***************************************************************************)
EXTENDS Integers, Sequences, FiniteSets, TLC

VARIABLES
    args,          \* cli.args: [ci, dry_run, all_files, files]
    pc,            \* position in cformat(): select, sanity, find_diffs, cformat_run, done
    modes_run,     \* the selection branches of the if/elif chain that executed
    warnings,      \* cli.log.warning calls, in order
    manifest,      \* all_changed_files, as loaded from $HOME/files.json
    all_files,     \* the value c_source_files(core_dirs) returned
    git_diff,      \* [returncode, lines, exists]: the git diff run and os.path.exists
    selected,      \* TRUE once a branch has bound the local `files`
    files,         \* the local `files` of cformat()
    idx,           \* find_diffs: index of the next file of the for loop
    found_diffs,   \* find_diffs: the local found_diffs
    spawned,       \* formatter processes started: [inplace, args]
    diffs,         \* diff processes run: [file, returncode]
    result,        \* how the invocation ended
    which,         \* versions v for which shutil.which('clang-format-v') finds a binary
    probed,        \* `which` as the last call of find_clang_format saw it
    binary,        \* value returned by the last call of find_clang_format
    ncalls         \* number of calls of find_clang_format made

vars == <<args, pc, modes_run, warnings, manifest, all_files, git_diff, selected,
          files, idx, found_diffs, spawned, diffs, result, which, probed, binary, ncalls>>

cmdvars == <<args, pc, modes_run, warnings, manifest, all_files, git_diff, selected,
             files, idx, found_diffs, spawned, diffs, result>>

whichvars == <<which, probed, binary, ncalls>>

----------------------------------------------------------------------------
(* Bounds *)

MaxLen == 2
MaxCalls == 3

----------------------------------------------------------------------------
(* Program constants *)

c_file_suffixes == { <<"c">>, <<"h">>, <<"c", "p", "p">> }

core_dirs == { <<"d", "r", "i", "v", "e", "r", "s">>,
               <<"q", "u", "a", "n", "t", "u", "m">>,
               <<"t", "e", "s", "t", "s">>,
               <<"t", "m", "k", "_", "c", "o", "r", "e">>,
               <<"p", "l", "a", "t", "f", "o", "r", "m", "s">> }

ignored == { <<"t", "m", "k", "_", "c", "o", "r", "e", "/", "p", "r", "o", "t", "o", "c", "o", "l", "/", "u", "s", "b", "_", "h", "i", "d">>,
             <<"q", "u", "a", "n", "t", "u", "m", "/", "t", "e", "m", "p", "l", "a", "t", "e">>,
             <<"p", "l", "a", "t", "f", "o", "r", "m", "s", "/", "c", "h", "i", "b", "i", "o", "s">> }

clang_versions == <<7, 8, 9, 10>>

----------------------------------------------------------------------------
(* The paths the inputs are drawn from *)

P_tmpl == <<"q", "u", "a", "n", "t", "u", "m", "/", "t", "e", "m", "p", "l", "a", "t", "e", "/", "x", ".", "c">>
P_core == <<"q", "u", "a", "n", "t", "u", "m", "/", "c", "o", "r", "e", ".", "c">>
P_nest == <<"t", "e", "s", "t", "s", "/", "q", "u", "a", "n", "t", "u", "m", "/", "t", "e", "m", "p", "l", "a", "t", "e", "/", "y", ".", "h">>
P_upper == <<"q", "u", "a", "n", "t", "u", "m", "/", "a", ".", "C">>
P_nodot == <<"c">>

Paths == {P_tmpl, P_core, P_nest, P_upper, P_nodot}

SeqsUpTo(S, n) == UNION { [1..k -> S] : k \in 0..n }

Range(s) == { s[i] : i \in 1..Len(s) }

NoDuplicates(s) == \A i, j \in 1..Len(s) : s[i] = s[j] => i = j

----------------------------------------------------------------------------
(* String operations of the Python code *)

\* str.startswith(prefix)
startswith(s, prefix) ==
    /\ Len(prefix) <= Len(s)
    /\ SubSeq(s, 1, Len(prefix)) = prefix

\* the `in` operator on two strings: sub occurs somewhere in s
str_in(sub, s) ==
    \E k \in 0..(Len(s) - Len(sub)) : SubSeq(s, k + 1, k + Len(sub)) = sub

\* s.split('.')[-1]: the text after the last '.', the whole string when there is none
split_dot_last(s) ==
    LET dots == { i \in 1..Len(s) : s[i] = "." }
    IN  IF dots = {} THEN s
        ELSE LET last == CHOOSE i \in dots : \A j \in dots : j <= i
             IN  SubSeq(s, last + 1, Len(s))

----------------------------------------------------------------------------
(* Collaborators *)

Slash == <<"/">>

UnderCoreDir(p) == \E d \in core_dirs : startswith(p, d \o Slash)

\* qmk.c_parse.c_source_files(core_dirs): the files under the core directories
\* whose suffix is a C suffix; a directory walk lists every file once.
c_source_files ==
    { s \in SeqsUpTo({ p \in Paths : /\ UnderCoreDir(p)
                                     /\ \E i \in 1..Len(p) : p[i] = "."
                                     /\ split_dot_last(p) \in c_file_suffixes },
                     Cardinality(Paths)) : NoDuplicates(s) }

\* the names `git diff --name-only <base> drivers quantum tests tmk_core platforms`
\* can print: paths under the directories given as pathspecs
GitPaths == { p \in Paths : UnderCoreDir(p) }

GitReturnCodes == {0, 1, 128}

\* exit statuses of diff(1): 0 same, 1 different, 2 trouble
DiffReturnCodes == {0, 1, 2}

\* git_diff.stdout.strip().split('\n'), the output given as its lines:
\* splitting the empty output yields one empty string
stdout_lines(lines) == IF lines = <<>> THEN << <<>> >> ELSE lines

----------------------------------------------------------------------------
(* find_clang_format *)

versioned_binary(v) ==
    CASE v = 7  -> "clang-format-7"
      [] v = 8  -> "clang-format-8"
      [] v = 9  -> "clang-format-9"
      [] v = 10 -> "clang-format-10"

\* w: the versions whose binary shutil.which finds
find_clang_format(w) ==
    LET hits == { i \in 1..Len(clang_versions) : clang_versions[i] \in w }
    IN  IF hits = {} THEN "clang-format"
        ELSE versioned_binary(clang_versions[CHOOSE i \in hits : \A j \in hits : i <= j])

----------------------------------------------------------------------------
(* cformat(cli): selection *)

WhichUnchanged == UNCHANGED whichvars

\* line 86
is_c_file(file) == split_dot_last(file) \in c_file_suffixes

in_ignored_never(file) == FALSE

\* line 101: the file path contains an ignored directory
in_ignored(file) == \E i \in ignored : str_in(i, file)

\* line 115: the file path starts with an ignored directory
starts_ignored(file) == \E ignore \in ignored : startswith(file, ignore)

\* line 80: if cli.args.ci
if_ci == args.ci

\* line 92: elif cli.args.files
elif_files_any_order == args.files # <<>>

elif_files == ~args.ci /\ args.files # <<>>

\* line 98: elif cli.args.all_files
elif_all_files == ~args.ci /\ args.files = <<>> /\ args.all_files

\* line 103: else
else_branch_diff == ~args.ci /\ args.files = <<>> /\ ~args.all_files

\* lines 80-90; a list comprehension [x for x in s if keep(x)] is SelectSeq(s, keep)
ChangesetMode ==
    /\ pc = "select"
    /\ if_ci
    /\ modes_run' = Append(modes_run, "Changeset")
    /\ warnings' = IF args.files # <<>> \/ args.all_files
                   THEN Append(warnings, "ci") ELSE warnings
    /\ \/ \* files.json cannot be opened or parsed: json.load raises
          /\ pc' = "done"
          /\ result' = "OSError"
          /\ UNCHANGED <<manifest, selected, files>>
       \/ \E m \in SeqsUpTo(Paths, MaxLen) :
            /\ manifest' = m
            /\ files' = SelectSeq(m, is_c_file)
            /\ selected' = TRUE
            /\ IF files' = <<>>
               THEN pc' = "done" /\ result' = "exit(0)"
               ELSE pc' = "sanity" /\ result' = result
    /\ UNCHANGED <<args, all_files, git_diff, idx, found_diffs, spawned, diffs>>
    /\ WhichUnchanged

ExplicitFilesMode_suffix_filtered ==
    /\ pc = "select"
    /\ elif_files
    /\ modes_run' = Append(modes_run, "Explicit")
    /\ files' = SelectSeq(args.files, is_c_file)
    /\ selected' = TRUE
    /\ warnings' = IF args.all_files THEN Append(warnings, "a") ELSE warnings
    /\ pc' = "sanity"
    /\ UNCHANGED <<args, manifest, all_files, git_diff, idx, found_diffs, spawned,
                   diffs, result>>
    /\ WhichUnchanged

\* lines 92-96
ExplicitFilesMode ==
    /\ pc = "select"
    /\ elif_files
    /\ modes_run' = Append(modes_run, "Explicit")
    /\ files' = args.files
    /\ selected' = TRUE
    /\ warnings' = IF args.all_files THEN Append(warnings, "a") ELSE warnings
    /\ pc' = "sanity"
    /\ UNCHANGED <<args, manifest, all_files, git_diff, idx, found_diffs, spawned,
                   diffs, result>>
    /\ WhichUnchanged

\* lines 98-101
AllFilesMode ==
    /\ pc = "select"
    /\ elif_all_files
    /\ modes_run' = Append(modes_run, "AllFiles")
    /\ \E af \in c_source_files :
         /\ all_files' = af
         /\ files' = SelectSeq(af, LAMBDA file : ~in_ignored(file))
    /\ selected' = TRUE
    /\ pc' = "sanity"
    /\ UNCHANGED <<args, warnings, manifest, git_diff, idx, found_diffs, spawned,
                   diffs, result>>
    /\ WhichUnchanged

\* lines 114-117: the loop over the lines of the diff output
branch_diff_files(lines, exists) ==
    SelectSeq(stdout_lines(lines),
           LAMBDA file : /\ ~starts_ignored(file)
                         /\ file \in exists
                         /\ is_c_file(file))

BranchDiffMode_returncode_ignored ==
    /\ pc = "select"
    /\ else_branch_diff
    /\ modes_run' = Append(modes_run, "BranchDiff")
    /\ \E rc \in GitReturnCodes :
       \E lines \in (IF rc = 0 THEN SeqsUpTo(GitPaths, MaxLen) ELSE {<<>>}) :
       \E exists \in SUBSET Range(lines) :
         /\ git_diff' = [returncode |-> rc, lines |-> lines, exists |-> exists]
         /\ IF FALSE
            THEN /\ pc' = "done"
                 /\ result' = "returncode"
                 /\ UNCHANGED <<files, selected>>
            ELSE /\ files' = branch_diff_files(lines, exists)
                 /\ selected' = TRUE
                 /\ pc' = "sanity"
                 /\ result' = result
    /\ UNCHANGED <<args, warnings, manifest, all_files, idx, found_diffs, spawned, diffs>>
    /\ WhichUnchanged

\* lines 103-117
BranchDiffMode ==
    /\ pc = "select"
    /\ else_branch_diff
    /\ modes_run' = Append(modes_run, "BranchDiff")
    /\ \E rc \in GitReturnCodes :
       \E lines \in (IF rc = 0 THEN SeqsUpTo(GitPaths, MaxLen) ELSE {<<>>}) :
       \E exists \in SUBSET Range(lines) :
         /\ git_diff' = [returncode |-> rc, lines |-> lines, exists |-> exists]
         /\ IF rc # 0
            THEN /\ pc' = "done"
                 /\ result' = "returncode"
                 /\ UNCHANGED <<files, selected>>
            ELSE /\ files' = branch_diff_files(lines, exists)
                 /\ selected' = TRUE
                 /\ pc' = "sanity"
                 /\ result' = result
    /\ UNCHANGED <<args, warnings, manifest, all_files, idx, found_diffs, spawned, diffs>>
    /\ WhichUnchanged

SanityCheck_empty_succeeds ==
    /\ pc = "sanity"
    /\ IF files = <<>>
       THEN pc' = "done" /\ result' = "True"
       ELSE /\ pc' = IF args.dry_run THEN "find_diffs" ELSE "cformat_run"
            /\ result' = result
    /\ UNCHANGED <<args, modes_run, warnings, manifest, all_files, git_diff, selected,
                   files, idx, found_diffs, spawned, diffs>>
    /\ WhichUnchanged

SanityCheck_dry_run_ignored ==
    /\ pc = "sanity"
    /\ IF files = <<>>
       THEN pc' = "done" /\ result' = "False"
       ELSE /\ pc' = IF FALSE THEN "find_diffs" ELSE "cformat_run"
            /\ result' = result
    /\ UNCHANGED <<args, modes_run, warnings, manifest, all_files, git_diff, selected,
                   files, idx, found_diffs, spawned, diffs>>
    /\ WhichUnchanged

\* lines 119-128: the sanity check and the dispatch on --dry-run
SanityCheck ==
    /\ pc = "sanity"
    /\ IF files = <<>>
       THEN pc' = "done" /\ result' = "False"
       ELSE /\ pc' = IF args.dry_run THEN "find_diffs" ELSE "cformat_run"
            /\ result' = result
    /\ UNCHANGED <<args, modes_run, warnings, manifest, all_files, git_diff, selected,
                   files, idx, found_diffs, spawned, diffs>>
    /\ WhichUnchanged

----------------------------------------------------------------------------
(* find_diffs and cformat_run *)

FindDiffsLoop_flag_overwritten ==
    /\ pc = "find_diffs"
    /\ idx <= Len(files)
    /\ spawned' = Append(spawned, [inplace |-> FALSE, args |-> <<files[idx]>>])
    /\ \E rc \in DiffReturnCodes :
         /\ diffs' = Append(diffs, [file |-> files[idx], returncode |-> rc])
         /\ found_diffs' = (rc # 0)
    /\ idx' = idx + 1
    /\ UNCHANGED <<args, pc, modes_run, warnings, manifest, all_files, git_diff,
                   selected, files, result>>
    /\ WhichUnchanged

\* lines 37-44: one iteration of the for loop. The formatter named by
\* find_clang_format() is started on the file (its name is resolved under
\* SpecWhich; the executable is taken to exist), then diff compares.
FindDiffsLoop ==
    /\ pc = "find_diffs"
    /\ idx <= Len(files)
    /\ spawned' = Append(spawned, [inplace |-> FALSE, args |-> <<files[idx]>>])
    /\ \E rc \in DiffReturnCodes :
         /\ diffs' = Append(diffs, [file |-> files[idx], returncode |-> rc])
         /\ found_diffs' = IF rc # 0 THEN TRUE ELSE found_diffs
    /\ idx' = idx + 1
    /\ UNCHANGED <<args, pc, modes_run, warnings, manifest, all_files, git_diff,
                   selected, files, result>>
    /\ WhichUnchanged

\* line 46 and line 126: return not find_diffs(files)
FindDiffsReturn ==
    /\ pc = "find_diffs"
    /\ idx > Len(files)
    /\ result' = IF found_diffs THEN "False" ELSE "True"
    /\ pc' = "done"
    /\ UNCHANGED <<args, modes_run, warnings, manifest, all_files, git_diff, selected,
                   files, idx, found_diffs, spawned, diffs>>
    /\ WhichUnchanged

\* lines 53-67 and line 128. Line 56 evaluates clang_format + map(str, files)
\* before cli.run is called: a list and a map object do not concatenate, the
\* expression raises TypeError, which the except clause for CalledProcessError
\* does not catch. No process is started.
CformatRun ==
    /\ pc = "cformat_run"
    /\ result' = "TypeError"
    /\ pc' = "done"
    /\ UNCHANGED <<args, modes_run, warnings, manifest, all_files, git_diff, selected,
                   files, idx, found_diffs, spawned, diffs>>
    /\ WhichUnchanged

----------------------------------------------------------------------------
(* One invocation of the command *)

CmdStart(a) ==
    /\ args = a
    /\ modes_run = <<>>
    /\ warnings = <<>>
    /\ manifest = <<>>
    /\ all_files = <<>>
    /\ git_diff = [returncode |-> 0, lines |-> <<>>, exists |-> {}]
    /\ selected = FALSE
    /\ files = <<>>
    /\ idx = 1
    /\ found_diffs = FALSE
    /\ spawned = <<>>
    /\ diffs = <<>>
    /\ result = "running"

Args == [ci : BOOLEAN, dry_run : BOOLEAN, all_files : BOOLEAN,
         files : SeqsUpTo(Paths, MaxLen)]

Init ==
    /\ \E a \in Args : CmdStart(a)
    /\ pc = "select"
    /\ which = {}
    /\ probed = {}
    /\ binary = "none"
    /\ ncalls = 0

Next ==
    \/ ChangesetMode
    \/ ExplicitFilesMode
    \/ AllFilesMode
    \/ BranchDiffMode
    \/ SanityCheck
    \/ FindDiffsLoop
    \/ FindDiffsReturn
    \/ CformatRun

Spec == Init /\ [][Next]_vars

----------------------------------------------------------------------------
(* Calls of find_clang_format against the installed executables *)

Versions == Range(clang_versions)

\* a call (line 39 or line 53): every call probes again
CallFindClangFormat ==
    /\ ncalls < MaxCalls
    /\ probed' = which
    /\ binary' = find_clang_format(which)
    /\ ncalls' = ncalls + 1
    /\ UNCHANGED which
    /\ UNCHANGED cmdvars

\* between two calls a formatter version is installed or removed
Reinstall ==
    /\ \E v \in Versions :
         which' = IF v \in which THEN which \ {v} ELSE which \cup {v}
    /\ UNCHANGED <<probed, binary, ncalls>>
    /\ UNCHANGED cmdvars

InitWhich ==
    /\ CmdStart([ci |-> FALSE, dry_run |-> FALSE, all_files |-> FALSE, files |-> <<>>])
    /\ pc = "idle"
    /\ which \in SUBSET Versions
    /\ probed = {}
    /\ binary = "none"
    /\ ncalls = 0

NextWhich == CallFindClangFormat \/ Reinstall

SpecWhich == InitWhich /\ [][NextWhich]_vars

----------------------------------------------------------------------------
(* Properties *)

\* the mode the precedence order ci > file list > all-files > branch diff names
Precedence(a) ==
    IF a.ci THEN "Changeset"
    ELSE IF a.files # <<>> THEN "Explicit"
    ELSE IF a.all_files THEN "AllFiles"
    ELSE "BranchDiff"

Mode == modes_run[1]

HasDot(p) == \E i \in 1..Len(p) : p[i] = "."

DiffedFiles == [i \in 1..Len(diffs) |-> diffs[i].file]

\* the warnings the precedence rules call for, given the flags
ExpectedWarnings ==
    IF args.ci THEN (IF args.files # <<>> \/ args.all_files THEN <<"ci">> ELSE <<>>)
    ELSE IF args.files # <<>> /\ args.all_files THEN <<"a">>
    ELSE <<>>

\* the candidate list as a function of the input of the mode that ran alone
CandidatesOfMode ==
    CASE Mode = "Changeset"  -> SelectSeq(manifest, is_c_file)
      [] Mode = "Explicit"   -> args.files
      [] Mode = "AllFiles"   -> SelectSeq(all_files, LAMBDA f : ~in_ignored(f))
      [] Mode = "BranchDiff" -> branch_diff_files(git_diff.lines, git_diff.exists)

\* C1: once selection has run, exactly one mode has run, the one the precedence
\* ci > explicit file list > all-files > branch diff names; inputs of lower
\* precedence add exactly one warning, and the candidate list is the one the
\* mode computes from its own input.
C1_ModePrecedence ==
    pc # "select" =>
        /\ modes_run = << Precedence(args) >>
        /\ warnings = ExpectedWarnings
        /\ selected => files = CandidatesOfMode
        /\ ~selected => files = <<>>

C1_Witness ==
    /\ args.ci /\ args.all_files /\ args.files = <<P_upper>>
    /\ manifest = <<P_core, P_upper>>
    /\ files = <<P_core>>
    /\ warnings = <<"ci">>
    /\ pc = "done"

\* C2 as stated: in every mode an empty candidate list ends the invocation with
\* the failure result False, and no formatter process is spawned.
C2_EmptyFailsInEveryMode ==
    (pc = "done" /\ selected /\ files = <<>>) =>
        /\ result = "False"
        /\ spawned = <<>>

\* C2 amended: an empty candidate list never reaches find_diffs or cformat_run
\* and spawns no process; the invocation ends with False in the explicit,
\* all-files and branch-diff modes, and with exit status 0 in the changeset mode.
C2_EmptySelection ==
    (selected /\ files = <<>>) =>
        /\ pc \in {"sanity", "done"}
        /\ spawned = <<>>
        /\ diffs = <<>>
        /\ pc = "done" => result = IF Mode = "Changeset" THEN "exit(0)" ELSE "False"

C2_Witness ==
    /\ pc = "done" /\ selected /\ files = <<>>
    /\ Mode = "BranchDiff"
    /\ git_diff.lines = <<P_tmpl, P_upper>>
    /\ result = "False"

\* C3 as stated: in apply mode with a non-empty candidate list the formatter is
\* started exactly once, in place, on the whole candidate list, and the
\* invocation returns True or False; no exception reaches the caller.
C3_ApplyRunsFormatterOnce ==
    (pc = "done" /\ selected /\ files # <<>> /\ ~args.dry_run) =>
        /\ spawned = << [inplace |-> TRUE, args |-> files] >>
        /\ result \in {"True", "False"}

\* C4: in dry-run the files are checked once each, in list order, none skipped
\* after a drifted one; the drift flag is set exactly when a comparison so far
\* returned non-zero; the invocation returns True iff no comparison did.
C4_DryRunChecksEveryFile ==
    (args.dry_run /\ selected /\ files # <<>> /\ pc \in {"find_diffs", "done"}) =>
        /\ Len(diffs) = idx - 1
        /\ DiffedFiles = SubSeq(files, 1, idx - 1)
        /\ Len(spawned) = Len(diffs)
        /\ \A i \in 1..Len(spawned) : spawned[i].args = << files[i] >>
        /\ found_diffs <=> \E i \in 1..Len(diffs) : diffs[i].returncode # 0
        /\ pc = "done" =>
             /\ DiffedFiles = files
             /\ result = IF \E i \in 1..Len(diffs) : diffs[i].returncode # 0
                         THEN "False" ELSE "True"

C4_Witness ==
    /\ args.dry_run /\ pc = "done"
    /\ Len(files) = 2
    /\ Len(diffs) = 2
    /\ diffs[1].returncode = 1
    /\ diffs[2].returncode = 0
    /\ found_diffs
    /\ result = "False"

\* C5: with the dry-run flag set cformat_run is never entered and every formatter
\* process is the per-file form without the in-place option.
C5_DryRunNeverInPlace ==
    args.dry_run =>
        /\ pc # "cformat_run"
        /\ result # "TypeError"
        /\ \A i \in 1..Len(spawned) :
             /\ ~spawned[i].inplace
             /\ Len(spawned[i].args) = 1

C5_Witness ==
    /\ args.dry_run /\ pc = "done"
    /\ Len(spawned) = 2
    /\ result = "False"

\* C6: the all-files mode selects no path that contains an ignored entry, hence
\* none that starts with one; the branch-diff mode selects no path that starts
\* with an ignored entry, whatever its suffix and whether it exists or not.
C6_IgnoredNeverSelected ==
    selected =>
        /\ Mode = "AllFiles" =>
             \A f \in Range(files) : \A i \in ignored :
                ~str_in(i, f) /\ ~startswith(f, i)
        /\ Mode = "BranchDiff" =>
             \A f \in Range(files) : \A i \in ignored : ~startswith(f, i)

C6_Witness ==
    /\ selected /\ Mode = "AllFiles"
    /\ Range(all_files) = {P_tmpl, P_nest, P_core}
    /\ files = <<P_core>>

\* C7 as stated: outside the explicit mode every candidate has a '.', and the
\* text after its last '.' is c, h or cpp.
C7_SuffixAfterLastDot ==
    (selected /\ Mode \in {"Changeset", "AllFiles", "BranchDiff"}) =>
        \A f \in Range(files) :
            /\ HasDot(f)
            /\ split_dot_last(f) \in c_file_suffixes

\* C8: in the explicit mode the candidate list is the list given on the command
\* line, element for element and in order, with or without the all-files flag,
\* and it is the list find_diffs walks through.
C8_ExplicitListUnchanged ==
    (pc # "select" /\ ~args.ci /\ args.files # <<>>) =>
        /\ selected
        /\ files = args.files
        /\ (pc = "done" /\ args.dry_run) => DiffedFiles = args.files

C8_Witness ==
    /\ modes_run = <<"Explicit">>
    /\ args.all_files /\ args.dry_run
    /\ args.files = <<P_tmpl, P_upper>>
    /\ DiffedFiles = <<P_tmpl, P_upper>>
    /\ pc = "done"

\* C9: when the git diff returns a non-zero status the invocation ends at once
\* with that status as its result; no candidate list is built, no other mode
\* runs and no process is spawned.
C9_DiffFailureAborts ==
    git_diff.returncode # 0 =>
        /\ pc = "done"
        /\ result = "returncode"
        /\ modes_run = <<"BranchDiff">>
        /\ ~selected
        /\ files = <<>>
        /\ spawned = <<>>
        /\ diffs = <<>>

C9_Witness ==
    /\ git_diff.returncode = 128
    /\ pc = "done"
    /\ result = "returncode"

NewestVersion(w) == CHOOSE v \in w : \A u \in w : u <= v

\* C10 as stated: a call returns the highest versioned name that is found, and
\* the unversioned name exactly when none is found.
C10_HighestVersionFirst ==
    binary # "none" =>
        binary = IF probed = {} THEN "clang-format"
                 ELSE versioned_binary(NewestVersion(probed))

====
